---- MODULE Spec2Model ----
(***************************************************************************)
(* A model of mini_bash.c: the read / tokenize / dispatch loop of main,    *)
(* the cd and exit built-ins, find_executable, and the fork / execv /      *)
(* waitpid / report_status pipeline of execute_external.                   *)
(*                                                                         *)
(* A C string is a sequence of one-character strings; NUL stands for the   *)
(* terminating '\0'.  A buffer is the sequence of its cells, 1-based.      *)
(* Bytes written to a file descriptor are kept as a sequence of pieces:    *)
(* write_chr appends one character, write_str the characters (or the       *)
(* literal) of its argument.                                               *)
(***************************************************************************)
EXTENDS Integers, Sequences, FiniteSets, TLC

VARIABLES
    pc,          \* position of the shell process in main / execute_external
    input,       \* the characters read_line received for the current line
    line,        \* the input buffer `line` of main (with its NUL cells)
    cap,         \* capacity of the input buffer
    nread,       \* result of the last read_line
    argv,        \* argv[] of main: indices into line, closed by NULL
    max_args,    \* the max_args handed to parse_line
    xok,         \* resolver specification: the paths access(path, X_OK) accepts
    path,        \* path[] of execute_external
    pid,         \* pid of execute_external (result of fork in the parent)
    cwd,         \* working directory of the shell process
    HOME,        \* value of the HOME environment variable
    sigchld_ign, \* the shell inherited SIGCHLD set to SIG_IGN
    children,    \* child processes of the shell that exist: pid -> record
    stdout,      \* pieces written to fd 1 by this program since the last prompt
    stderr,      \* pieces written to fd 2 by this program since the last prompt
    sys,         \* system calls the shell process made since the last prompt
    exit_status  \* exit status of the shell process, NoExit while it runs

vars == <<pc, input, line, cap, nread, argv, max_args, xok, path, pid, cwd, HOME, sigchld_ign,
          children, stdout, stderr, sys, exit_status>>

----------------------------------------------------------------------------
(* Bounds of the model *)

MaxPieces == 3      \* pieces (separators or words) in one input line
MaxPid == 2         \* size of the process table left to the shell's children
MaxCode == 1        \* exit codes 0..MaxCode (and 255) of a child program
MaxSig == 1         \* signals 1..MaxSig (and 9) that end a child
MaxTokLen == 4      \* length of the lines of the tokenizer specification
MaxArgsTok == 3     \* max_args 1..MaxArgsTok in the tokenizer specification
MaxCmdLen == 2      \* length of the command names of the resolver specification

(* Program constants *)

PROMPT_LEN == 11
INITIAL_BUF == 256
MAX_ARGS == 128
PATH_BUF == 4096

NUL == "NUL"        \* the character '\0'
NULL == 0           \* the null pointer in argv[] (indices start at 1)
NoExit == <<>>      \* exit_status while the shell runs; <<c>> once it returned c
NullStr == [isNull |-> TRUE, str |-> <<>>]     \* getenv() returning NULL
Str(s) == [isNull |-> FALSE, str |-> s]

PROMPT == <<"m","i","n","i","-","b","a","s","h"," ","$"," ">>

kw_exit == <<"e","x","i","t">>
kw_cd == <<"c","d">>
bin_dir == <<"/","b","i","n">>

----------------------------------------------------------------------------
(* Output helpers: lines 16-56 *)

(* write_str: the bytes of s up to its terminator *)
write_str(s) == s

write_chr(c) == <<c>>

Digit(d) == CASE d = 0 -> "0" [] d = 1 -> "1" [] d = 2 -> "2" [] d = 3 -> "3"
              [] d = 4 -> "4" [] d = 5 -> "5" [] d = 6 -> "6" [] d = 7 -> "7"
              [] d = 8 -> "8" [] d = 9 -> "9"

(* the first loop of write_int: digits of x, least significant first *)
RECURSIVE int_digits_rev(_, _)
int_digits_rev(x, buf) ==
    IF x > 0 /\ Len(buf) < 32
    THEN int_digits_rev(x \div 10, Append(buf, Digit(x % 10)))
    ELSE buf

(* the second loop of write_int: buf[--i] while i > 0 *)
RECURSIVE emit_rev(_)
emit_rev(buf) ==
    IF Len(buf) > 0
    THEN <<buf[Len(buf)]>> \o emit_rev(SubSeq(buf, 1, Len(buf) - 1))
    ELSE <<>>

write_int(x) ==
    IF x = 0 THEN write_chr("0")
    ELSE IF x < 0
         THEN IF x = -2147483647 - 1
              THEN write_chr("-") \o write_str(<<"2147483648">>)
              ELSE write_chr("-") \o emit_rev(int_digits_rev(-x, <<>>))
         ELSE emit_rev(int_digits_rev(x, <<>>))

(* perror(s): s, a colon and a blank, the text of errno, a newline *)
perror(s) == <<s, ": ", "strerror(errno)", "\n">>

----------------------------------------------------------------------------
(* Tokenizer: lines 58-136 *)

(* a separator test that forgets the tab *)
IsWs_no_tab(c) == c = " " \/ c = "\r" \/ c = "\n"

IsWs(c) == c = " " \/ c = "\t" \/ c = "\r" \/ c = "\n"

(* the C string that starts at cell i of buf *)
RECURSIVE CStr(_, _)
CStr(buf, i) ==
    IF i > Len(buf) \/ buf[i] = NUL THEN <<>>
    ELSE <<buf[i]>> \o CStr(buf, i + 1)

str_len(s) == Len(s)

RECURSIVE ws_from(_, _)
ws_from(buf, i) ==
    IF buf[i] = NUL THEN TRUE
    ELSE IF ~IsWs(buf[i]) THEN FALSE
    ELSE ws_from(buf, i + 1)

starts_empty_or_ws(buf) == ws_from(buf, 1)

(* not skipping the separators that follow a token *)
skip_ws_none(buf, i) == i

RECURSIVE skip_ws(_, _)
skip_ws(buf, i) == IF IsWs(buf[i]) THEN skip_ws(buf, i + 1) ELSE i

RECURSIVE skip_token(_, _)
skip_token(buf, i) ==
    IF buf[i] # NUL /\ ~IsWs(buf[i]) THEN skip_token(buf, i + 1) ELSE i

(* The outer while loop of parse_line, lines 113-132.  Its state is the
   buffer, the cell `line` points to and the argv written so far; `done`
   says that the loop has been left (its condition failed, or the break of
   line 123). *)
LoopState(buf, i, av, done) == [buf |-> buf, i |-> i, argv |-> av, done |-> done]

(* an iteration whose loop condition never looks at max_args *)
parse_step_unbounded(st, max) ==
    IF st.done \/ st.buf[st.i] = NUL
    THEN LoopState(st.buf, st.i, st.argv, TRUE)
    ELSE LET av2 == Append(st.argv, st.i)
             j == skip_token(st.buf, st.i)
         IN  IF st.buf[j] = NUL THEN LoopState(st.buf, j, av2, TRUE)
             ELSE LET buf2 == [st.buf EXCEPT ![j] = NUL]
                  IN  LoopState(buf2, skip_ws(buf2, j + 1), av2, FALSE)

(* an iteration whose loop condition is argc < max_args *)
parse_step_off_by_one(st, max) ==
    IF st.done \/ ~(st.buf[st.i] # NUL /\ Len(st.argv) < max)
    THEN LoopState(st.buf, st.i, st.argv, TRUE)
    ELSE LET av2 == Append(st.argv, st.i)
             j == skip_token(st.buf, st.i)
         IN  IF st.buf[j] = NUL THEN LoopState(st.buf, j, av2, TRUE)
             ELSE LET buf2 == [st.buf EXCEPT ![j] = NUL]
                  IN  LoopState(buf2, skip_ws(buf2, j + 1), av2, FALSE)

(* one test of the loop condition and, when it holds, one run of the body *)
parse_step(st, max) ==
    IF st.done \/ ~(st.buf[st.i] # NUL /\ Len(st.argv) < max - 1)
    THEN LoopState(st.buf, st.i, st.argv, TRUE)
    ELSE LET av2 == Append(st.argv, st.i)
             j == skip_token(st.buf, st.i)
         IN  IF st.buf[j] = NUL THEN LoopState(st.buf, j, av2, TRUE)
             ELSE LET buf2 == [st.buf EXCEPT ![j] = NUL]
                  IN  LoopState(buf2, skip_ws(buf2, j + 1), av2, FALSE)

(* up to n iterations in a row, split in halves; nothing happens once the
   loop has been left *)
RECURSIVE parse_iterate(_, _, _)
parse_iterate(st, max, n) ==
    IF n = 0 \/ st.done THEN st
    ELSE IF n = 1 THEN parse_step(st, max)
    ELSE LET h == parse_iterate(st, max, n \div 2)
         IN  IF h.done THEN h ELSE parse_iterate(h, max, n - (n \div 2))

(* the loop run until it is left: every iteration but the last moves `line`
   forward, so Len(buf) iterations are enough *)
parse_loop(buf, i, av, max) ==
    LET r == parse_iterate(LoopState(buf, i, av, FALSE), max, Len(buf))
    IN  [buf |-> r.buf, argv |-> r.argv]

(* parse_line: the buffer as left behind, argv[0..argc] and argc *)
parse_line(buf, max) ==
    LET r == parse_loop(buf, skip_ws(buf, 1), <<>>, max)
    IN  [buf |-> r.buf, argv |-> Append(r.argv, NULL), argc |-> Len(r.argv)]

(* the string argv[k] points to, k counted from 0 as in C *)
Arg(buf, av, k) == CStr(buf, av[k + 1])

(* the strings of argv[0..argc-1] *)
Args(buf, av) == [k \in 1..(Len(av) - 1) |-> CStr(buf, av[k])]

----------------------------------------------------------------------------
(* read_line: lines 68-103 *)

(* capacity after the loop of read_line stored n characters *)
RECURSIVE grow_cap(_, _, _)
grow_cap(c, len, n) ==
    IF len = n THEN c
    ELSE grow_cap(IF len + 2 > c THEN c * 2 ELSE c, len + 1, n)

(* capacity on entry to the loop: the first call allocates INITIAL_BUF *)
first_cap(buf, c) == IF buf = <<>> \/ c = 0 THEN INITIAL_BUF ELSE c

----------------------------------------------------------------------------
(* Executable resolver: lines 139-178 *)

(* build_path: 0 when prefix + "/" + cmd + NUL exceed out_sz *)
build_path(out_sz, prefix, cmd) ==
    LET p == str_len(prefix)
        c == str_len(cmd)
    IN  IF p + 1 + c + 1 > out_sz THEN [ok |-> FALSE, out |-> <<>>]
        ELSE [ok |-> TRUE, out |-> prefix \o <<"/">> \o cmd]

(* a resolver that looks in /bin before $HOME *)
find_executable_bin_first(cmd, home, out_sz, X) ==
    LET try_home == ~home.isNull /\ home.str # <<>>
        h == home.str \o <<"/">> \o cmd
        b == bin_dir \o <<"/">> \o cmd
    IN  IF b \in X
        THEN [found |-> TRUE, path |-> b,
              checked |-> <<[path |-> b, ret |-> 0]>>]
        ELSE IF try_home /\ h \in X
             THEN [found |-> TRUE, path |-> h,
                   checked |-> <<[path |-> b, ret |-> -1], [path |-> h, ret |-> 0]>>]
             ELSE [found |-> FALSE, path |-> b,
                   checked |-> <<[path |-> b, ret |-> -1]>>]

(* a resolver that takes /bin/<cmd> without asking access *)
find_executable_unchecked(cmd, home, out_sz, X) ==
    LET try_home == ~home.isNull /\ home.str # <<>>
        h == home.str \o <<"/">> \o cmd
        b == bin_dir \o <<"/">> \o cmd
    IN  IF try_home /\ h \in X
        THEN [found |-> TRUE, path |-> h, checked |-> <<[path |-> h, ret |-> 0]>>]
        ELSE [found |-> TRUE, path |-> b,
              checked |-> IF try_home THEN <<[path |-> h, ret |-> -1]>> ELSE <<>>]

(* find_executable: X is the set of paths for which access(path, X_OK) is 0
   at the moment of the call; `checked` lists the calls of access in order,
   each with the path it was handed and what it returned *)
access(pth, X) == IF pth \in X THEN 0 ELSE -1

find_executable(cmd, home, out_sz, X) ==
    LET try_home == ~home.isNull /\ home.str # <<>>
        h == build_path(out_sz, home.str, cmd)
        b == build_path(out_sz, bin_dir, cmd)
        chk_h == IF try_home /\ h.ok
                 THEN <<[path |-> h.out, ret |-> access(h.out, X)]>> ELSE <<>>
        chk_b == IF b.ok
                 THEN <<[path |-> b.out, ret |-> access(b.out, X)]>> ELSE <<>>
    IN  IF try_home /\ h.ok /\ access(h.out, X) = 0
        THEN [found |-> TRUE, path |-> h.out, checked |-> chk_h]
        ELSE IF b.ok /\ access(b.out, X) = 0
             THEN [found |-> TRUE, path |-> b.out, checked |-> chk_h \o chk_b]
             ELSE [found |-> FALSE,
                   path |-> IF b.ok THEN b.out
                            ELSE IF try_home /\ h.ok THEN h.out ELSE <<>>,
                   checked |-> chk_h \o chk_b]

(* the message without its brackets *)
print_unknown_plain(cmd) == write_str(cmd) \o write_str(<<": Unknown Command\n">>)

(* print_unknown: lines 184-188 *)
print_unknown(cmd) ==
    write_chr("[") \o write_str(cmd) \o write_str(<<"]: Unknown Command\n">>)

----------------------------------------------------------------------------
(* Wait status: the encoding read by the macros of <sys/wait.h> *)

StatusExited(code) == (code % 256) * 256
StatusSignaled(sig, core) == sig + (IF core THEN 128 ELSE 0)
StatusStopped(sig) == sig * 256 + 127

WIFEXITED(status) == status % 128 = 0
WEXITSTATUS(status) == (status \div 256) % 256
WIFSIGNALED(status) == (status % 128) # 0 /\ (status % 128) # 127
WTERMSIG(status) == status % 128

(* report_status printing the raw wait status as the return code *)
report_status_raw(status) ==
    IF WIFEXITED(status)
    THEN write_str(<<"Command executed successfully. Return code: ">>)
         \o write_int(status) \o write_chr("\n")
    ELSE IF WIFSIGNALED(status)
         THEN write_str(<<"Command terminated by signal: ">>)
              \o write_int(WTERMSIG(status)) \o write_chr("\n")
         ELSE write_str(<<"Command finished. (unknown status)\n">>)

(* report_status: lines 195-209 *)
report_status(status) ==
    IF WIFEXITED(status)
    THEN write_str(<<"Command executed successfully. Return code: ">>)
         \o write_int(WEXITSTATUS(status)) \o write_chr("\n")
    ELSE IF WIFSIGNALED(status)
         THEN write_str(<<"Command terminated by signal: ">>)
              \o write_int(WTERMSIG(status)) \o write_chr("\n")
         ELSE write_str(<<"Command finished. (unknown status)\n">>)

----------------------------------------------------------------------------
(* The environment of the shell *)

Seps == {<<" ">>, <<"\t">>}
Words == {kw_cd, kw_exit, <<"a">>}
Pieces == Seps \cup Words

RECURSIVE Concat(_)
Concat(ss) == IF ss = <<>> THEN <<>> ELSE Head(ss) \o Concat(Tail(ss))

(* what one read_line can receive before its newline or the end of input *)
Bodies == {Concat(ps) : ps \in UNION {[1..n -> Pieces] : n \in 0..MaxPieces}}

(* what a line cut by the end of input holds: one word or one separator *)
PartialBodies == Pieces

(* directories that exist and that the shell may enter *)
Dirs == {<<"/">>, <<"/","a">>}

HomeValues == {NullStr, Str(<<>>), Str(<<"/","a">>)}

Pids == 1..MaxPid
ExitCodes == (0..MaxCode) \cup {255}
Signals == (1..MaxSig) \cup {9}

(* the directory a chdir(target) issued in directory d names *)
Resolve(d, target) ==
    IF target = <<>> THEN <<>>
    ELSE IF target[1] = "/" THEN target
    ELSE IF d = <<"/">> THEN d \o target
    ELSE d \o <<"/">> \o target

Sys(call, arg, ret) == [call |-> call, arg |-> arg, ret |-> ret]

(* a child right after fork: a copy of the shell inside execute_external *)
NewChild(pth, args) ==
    [pc |-> "execv", path |-> pth, args |-> args, status |-> 0,
     reported |-> FALSE, failed |-> FALSE]

Live(c) == c.pc # "zombie"

(* the process id fork gives the next child: the lowest one not in use *)
FreePid(ch) == CHOOSE p \in Pids \ DOMAIN ch : \A q \in Pids \ DOMAIN ch : p <= q

----------------------------------------------------------------------------
(* Initial state: main before its loop, lines 276-278 *)

Init ==
    /\ pc = "prompt"
    /\ input = <<>>
    /\ max_args = MAX_ARGS
    /\ line = <<>>
    /\ cap = 0
    /\ nread = 0
    /\ argv = <<>>
    /\ xok = {}
    /\ path = <<>>
    /\ pid = 0
    /\ cwd = <<"/">>
    /\ HOME \in HomeValues
    /\ sigchld_ign \in BOOLEAN
    /\ children = <<>>
    /\ stdout = <<>>
    /\ stderr = <<>>
    /\ sys = <<>>
    /\ exit_status = NoExit

(* The cells of the input buffer are dead between two iterations: read_line
   writes it from cell 0 before anything reads it.  The model forgets them
   at the top of the loop; <<>> is the null pointer, <<NUL>> a buffer whose
   cells are not known. *)
Forget(buf) == IF buf = <<>> THEN <<>> ELSE <<NUL>>

(* leaving the loop: free(line); return 0, lines 316-318 *)
MainReturn ==
    /\ pc' = "done"
    /\ line' = <<>>
    /\ exit_status' = <<0>>

(* `continue`, or falling off the end of the loop body *)
NextIteration == pc' = "prompt"

----------------------------------------------------------------------------
(* main, lines 280-293: prompt and read.  A new iteration starts with the
   block-scoped objects of the previous one gone (nread, argv; path and pid
   of execute_external); stdout, stderr, sys and input start afresh so that
   they describe one iteration. *)

PromptOK ==
    /\ pc = "prompt"
    /\ stdout' = SubSeq(PROMPT, 1, PROMPT_LEN)
    /\ stderr' = <<>>
    /\ sys' = <<>>
    /\ argv' = <<>>
    /\ nread' = 0
    /\ line' = Forget(line)
    /\ input' = <<>>
    /\ path' = <<>>
    /\ pid' = 0
    /\ pc' = "read_line"
    /\ UNCHANGED <<xok, max_args, cap, cwd, HOME, sigchld_ign, children, exit_status>>

PromptFail ==
    /\ pc = "prompt"
    /\ stdout' = <<>>
    /\ stderr' = perror("write")
    /\ sys' = <<>>
    /\ argv' = <<>>
    /\ input' = <<>>
    /\ nread' = 0
    /\ path' = <<>>
    /\ pid' = 0
    /\ MainReturn
    /\ UNCHANGED <<xok, max_args, cap, cwd, HOME, sigchld_ign, children>>

(* read_line returns a line: body and newline, or a body cut by end of input *)
ReadLineOK ==
    /\ pc = "read_line"
    /\ \E body \in Bodies, nl \in BOOLEAN :
         /\ nl \/ body \in PartialBodies
         /\ LET l == IF nl THEN body \o <<"\n">> ELSE body
            IN  /\ input' = l
                /\ line' = l \o <<NUL>>
                /\ cap' = grow_cap(first_cap(line, cap), 0, Len(l))
                /\ nread' = Len(l)
    /\ sys' = Append(sys, Sys("read", <<"line">>, 1))
    /\ pc' = "parse"
    /\ UNCHANGED <<xok, max_args, argv, path, pid, cwd, HOME, sigchld_ign, children,
                   stdout, stderr, exit_status>>

(* end of input handled without the newline of line 291 *)
ReadLineEOF_no_newline ==
    /\ pc = "read_line"
    /\ cap' = first_cap(line, cap)
    /\ nread' = -1
    /\ sys' = Append(sys, Sys("read", <<"eof">>, 0))
    /\ MainReturn
    /\ UNCHANGED <<xok, max_args, input, argv, path, pid, cwd, HOME, sigchld_ign, children,
                   stdout, stderr>>

(* read_line returns -1 at end of input with nothing read: lines 80-81 *)
ReadLineEOF ==
    /\ pc = "read_line"
    /\ cap' = first_cap(line, cap)
    /\ nread' = -1
    /\ sys' = Append(sys, Sys("read", <<"eof">>, 0))
    /\ stdout' = stdout \o write_chr("\n")
    /\ MainReturn
    /\ UNCHANGED <<xok, max_args, input, argv, path, pid, cwd, HOME, sigchld_ign, children, stderr>>

(* read_line returns -1 on a failed malloc (first call) or a failed read,
   lines 72 and 85; the lines of the model never outgrow INITIAL_BUF, so
   realloc is not called *)
ReadLineError ==
    /\ pc = "read_line"
    /\ cap' = first_cap(line, cap)
    /\ nread' = -1
    /\ \E failed \in {"malloc", "read"} :
         /\ failed = "malloc" => line = <<>>
         /\ sys' = Append(sys, Sys(failed, <<"error">>, -1))
    /\ stdout' = stdout \o write_chr("\n")
    /\ MainReturn
    /\ UNCHANGED <<xok, max_args, input, argv, path, pid, cwd, HOME, sigchld_ign, children, stderr>>

----------------------------------------------------------------------------
(* main, lines 295-301: blank lines and tokenizing *)

SkipBlank ==
    /\ pc = "parse"
    /\ starts_empty_or_ws(line)
    /\ NextIteration
    /\ UNCHANGED <<xok, max_args, input, line, cap, nread, argv, path, pid, cwd, HOME, sigchld_ign,
                   children, stdout, stderr, sys, exit_status>>

Parse ==
    /\ pc = "parse"
    /\ ~starts_empty_or_ws(line)
    /\ LET r == parse_line(line, max_args)
       IN  /\ line' = r.buf
           /\ argv' = r.argv
           /\ IF r.argc = 0 THEN NextIteration ELSE pc' = "dispatch"
    /\ UNCHANGED <<xok, max_args, input, cap, nread, path, pid, cwd, HOME, sigchld_ign, children,
                   stdout, stderr, sys, exit_status>>

argc == Len(argv) - 1
(* exit recognised only when it stands alone *)
IsExit_alone == Arg(line, argv, 0) = kw_exit /\ argc = 1

IsExit == Arg(line, argv, 0) = kw_exit

(* cd recognised by its first two characters: strncmp(argv[0], "cd", 2) *)
IsCd_prefix ==
    /\ ~IsExit
    /\ Len(Arg(line, argv, 0)) >= Len(kw_cd)
    /\ SubSeq(Arg(line, argv, 0), 1, Len(kw_cd)) = kw_cd

IsCd == ~IsExit /\ Arg(line, argv, 0) = kw_cd
IsExternal == ~IsExit /\ ~IsCd

----------------------------------------------------------------------------
(* main, lines 303-313, and the built-ins *)

BuiltinExit ==
    /\ pc = "dispatch"
    /\ IsExit
    /\ MainReturn
    /\ UNCHANGED <<xok, max_args, input, cap, nread, argv, path, pid, cwd, HOME, sigchld_ign,
                   children, stdout, stderr, sys>>

(* cd that reports nothing when chdir fails *)
builtin_cd_silent(buf, av, ac, home, d) ==
    LET target == IF ac >= 2 THEN Str(Arg(buf, av, 1)) ELSE home
    IN  IF target.isNull
        THEN [cwd |-> d, err |-> write_str(<<"cd: HOME not set\n">>), sys |-> <<>>]
        ELSE LET to == Resolve(d, target.str)
             IN  IF to \in Dirs
                 THEN [cwd |-> to, err |-> <<>>,
                       sys |-> <<Sys("chdir", target.str, 0)>>]
                 ELSE [cwd |-> d, err |-> <<>>,
                       sys |-> <<Sys("chdir", target.str, -1)>>]

(* cd that goes to HOME whatever its argument *)
builtin_cd_home_only(buf, av, ac, home, d) ==
    IF home.isNull
    THEN [cwd |-> d, err |-> write_str(<<"cd: HOME not set\n">>), sys |-> <<>>]
    ELSE LET to == Resolve(d, home.str)
         IN  IF to \in Dirs
             THEN [cwd |-> to, err |-> <<>>, sys |-> <<Sys("chdir", home.str, 0)>>]
             ELSE [cwd |-> d, err |-> perror("chdir"),
                   sys |-> <<Sys("chdir", home.str, -1)>>]

(* builtin_cd, lines 260-274, called in directory d with HOME = home:
   the directory afterwards, what it wrote to fd 2, its system calls *)
builtin_cd(buf, av, ac, home, d) ==
    LET target == IF ac >= 2 THEN Str(Arg(buf, av, 1)) ELSE home
    IN  IF target.isNull
        THEN [cwd |-> d, err |-> write_str(<<"cd: HOME not set\n">>), sys |-> <<>>]
        ELSE LET to == Resolve(d, target.str)
             IN  IF to \in Dirs
                 THEN [cwd |-> to, err |-> <<>>,
                       sys |-> <<Sys("chdir", target.str, 0)>>]
                 ELSE [cwd |-> d, err |-> perror("chdir"),
                       sys |-> <<Sys("chdir", target.str, -1)>>]

BuiltinCd ==
    /\ pc = "dispatch"
    /\ IsCd
    /\ LET r == builtin_cd(line, argv, argc, HOME, cwd)
       IN  /\ cwd' = r.cwd
           /\ stderr' = stderr \o r.err
           /\ sys' = sys \o r.sys
    /\ NextIteration
    /\ UNCHANGED <<xok, max_args, input, line, cap, nread, argv, path, pid, HOME, sigchld_ign,
                   children, stdout, exit_status>>

----------------------------------------------------------------------------
(* execute_external, lines 218-249: the parent *)

(* the two files a command name can stand for *)
Candidates(cmd) == {HOME.str \o <<"/">> \o cmd, bin_dir \o <<"/">> \o cmd}

Accesses(checked) ==
    [k \in 1..Len(checked) |-> Sys("access", checked[k].path, checked[k].ret)]

ExternalUnknown ==
    /\ pc = "dispatch"
    /\ IsExternal
    /\ \E X \in SUBSET Candidates(Arg(line, argv, 0)) :
         LET r == find_executable(Arg(line, argv, 0), HOME, PATH_BUF, X)
         IN  /\ ~r.found
             /\ sys' = sys \o Accesses(r.checked)
             /\ path' = r.path
             /\ stderr' = stderr \o print_unknown(Arg(line, argv, 0))
    /\ NextIteration
    /\ UNCHANGED <<xok, max_args, input, line, cap, nread, argv, pid, cwd, HOME, sigchld_ign,
                   children, stdout, exit_status>>

(* a failed fork without the return of line 229: the parent goes on to
   waitpid(-1, ...) *)
ExternalForkFail_waits ==
    /\ pc = "dispatch"
    /\ IsExternal
    /\ \E X \in SUBSET Candidates(Arg(line, argv, 0)) :
         LET r == find_executable(Arg(line, argv, 0), HOME, PATH_BUF, X)
         IN  /\ r.found
             /\ sys' = sys \o Accesses(r.checked) \o <<Sys("fork", <<>>, -1)>>
             /\ path' = r.path
             /\ stderr' = stderr \o perror("fork")
    /\ pid' = -1
    /\ pc' = "waitpid"
    /\ UNCHANGED <<xok, max_args, input, line, cap, nread, argv, cwd, HOME, sigchld_ign,
                   children, stdout, exit_status>>

(* lines 226-230: fork failed *)
ExternalForkFail ==
    /\ pc = "dispatch"
    /\ IsExternal
    /\ \E X \in SUBSET Candidates(Arg(line, argv, 0)) :
         LET r == find_executable(Arg(line, argv, 0), HOME, PATH_BUF, X)
         IN  /\ r.found
             /\ sys' = sys \o Accesses(r.checked) \o <<Sys("fork", <<>>, -1)>>
             /\ path' = r.path
             /\ stderr' = stderr \o perror("fork")
    /\ NextIteration
    /\ UNCHANGED <<xok, max_args, input, line, cap, nread, argv, pid, cwd, HOME, sigchld_ign,
                   children, stdout, exit_status>>

ExternalFork ==
    /\ pc = "dispatch"
    /\ IsExternal
    /\ \E X \in SUBSET Candidates(Arg(line, argv, 0)) :
         LET r == find_executable(Arg(line, argv, 0), HOME, PATH_BUF, X)
         IN  /\ r.found
             /\ path' = r.path
             /\ Pids \ DOMAIN children # {}
             /\ LET p == FreePid(children)
                IN  /\ pid' = p
                    /\ sys' = sys \o Accesses(r.checked) \o <<Sys("fork", <<>>, p)>>
                    /\ children' = (p :> NewChild(r.path, Args(line, argv))) @@ children
    /\ pc' = "waitpid"
    /\ UNCHANGED <<xok, max_args, input, line, cap, nread, argv, cwd, HOME, sigchld_ign,
                   stdout, stderr, exit_status>>

----------------------------------------------------------------------------
(* The child processes and waitpid *)

Remove(ch, p) == [q \in DOMAIN ch \ {p} |-> ch[q]]

(* a child that ended: a zombie until it is waited for *)
Ended(c, status) ==
    [pc |-> "zombie", path |-> <<>>, args |-> <<>>, status |-> status,
     reported |-> FALSE, failed |-> c.failed]

(* the process table once child p ended with `status`: with SIGCHLD ignored
   the kernel reaps it at once *)
Terminate(ch, p, c, ign) == IF ign THEN Remove(ch, p) ELSE [ch EXCEPT ![p] = c]

(* a child whose failed execv is not followed by _exit: it goes on into
   the parent's waitpid *)
child_execv_falls_through(c) == [c EXCEPT !.failed = TRUE, !.pc = "waitpid"]

(* a child that reports success after its execv failed: _exit(0) *)
child_execv_exits_zero(c) == Ended([c EXCEPT !.failed = TRUE], StatusExited(0))

(* the child after execv returned, lines 236-238: perror and _exit(1) *)
child_execv_failed(c) == Ended([c EXCEPT !.failed = TRUE], StatusExited(1))

(* execv(path, argv) replaces the image of child p: line 234 *)
ChildExecvOK(p) ==
    /\ p \in DOMAIN children
    /\ children[p].pc = "execv"
    /\ children' = [children EXCEPT ![p] =
                      [@ EXCEPT !.pc = "image", !.path = <<>>, !.args = <<>>]]
    /\ UNCHANGED <<xok, max_args, input, pc, line, cap, nread, argv, path, pid, cwd, HOME,
                   sigchld_ign, stdout, stderr, sys, exit_status>>

(* execv(path, argv) fails in child p: lines 234-238 *)
ChildExecvFail(p) ==
    /\ p \in DOMAIN children
    /\ children[p].pc = "execv"
    /\ stderr' = stderr \o perror("execv")
    /\ LET c == child_execv_failed(children[p])
       IN  children' = IF c.pc = "zombie"
                       THEN Terminate(children, p, c, sigchld_ign)
                       ELSE [children EXCEPT ![p] = c]
    /\ UNCHANGED <<xok, max_args, input, pc, line, cap, nread, argv, path, pid, cwd, HOME,
                   sigchld_ign, stdout, sys, exit_status>>

(* the program that child p became exits with `code` *)
ChildExit(p, code) ==
    /\ p \in DOMAIN children
    /\ children[p].pc = "image"
    /\ children' = Terminate(children, p,
                             Ended(children[p], StatusExited(code)), sigchld_ign)
    /\ UNCHANGED <<xok, max_args, input, pc, line, cap, nread, argv, path, pid, cwd, HOME,
                   sigchld_ign, stdout, stderr, sys, exit_status>>

(* a signal ends child p, before or after its execv; SIGKILL leaves no core
   dump and also ends a child that is stopped under trace *)
ChildKilled(p, sig, core) ==
    /\ p \in DOMAIN children
    /\ sig = 9 => ~core
    /\ \/ children[p].pc \in {"execv", "image"}
       \/ children[p].pc = "stopped" /\ sig = 9
    /\ children' = Terminate(children, p,
                             Ended(children[p], StatusSignaled(sig, core)),
                             sigchld_ign)
    /\ UNCHANGED <<xok, max_args, input, pc, line, cap, nread, argv, path, pid, cwd, HOME,
                   sigchld_ign, stdout, stderr, sys, exit_status>>

(* the program that child p became asked to be traced by its parent
   (PTRACE_TRACEME) and stops on a signal: it stays alive *)
ChildTraceStop(p) ==
    /\ p \in DOMAIN children
    /\ children[p].pc = "image"
    /\ children' = [children EXCEPT ![p] =
                      [@ EXCEPT !.pc = "stopped", !.status = StatusStopped(19)]]
    /\ UNCHANGED <<xok, max_args, input, pc, line, cap, nread, argv, path, pid, cwd, HOME,
                   sigchld_ign, stdout, stderr, sys, exit_status>>

(* waitpid(-1, &status, 0): any child that ended or stopped will do *)
waitpid_any(p, ch) ==
    IF DOMAIN ch = {}
    THEN {[ret |-> -1, status |-> 0, ch |-> ch]}
    ELSE {[ret |-> q, status |-> ch[q].status,
           ch |-> IF ch[q].pc = "zombie" THEN Remove(ch, q)
                  ELSE [ch EXCEPT ![q].reported = TRUE]] :
             q \in {c \in DOMAIN ch : \/ ch[c].pc = "zombie"
                                      \/ ch[c].pc = "stopped" /\ ~ch[c].reported}}

(* waitpid(p, &status, 0) in the shell: the ways it can return now (none
   while it blocks), each with the process table it leaves.  It fails
   (ECHILD) when p is no child of the shell any more; the program installs
   no signal handler, so it is never interrupted. *)
waitpid(p, ch) ==
    IF p \notin DOMAIN ch
    THEN {[ret |-> -1, status |-> 0, ch |-> ch]}
    ELSE IF ch[p].pc = "zombie"
         THEN {[ret |-> p, status |-> ch[p].status, ch |-> Remove(ch, p)]}
         ELSE IF ch[p].pc = "stopped" /\ ~ch[p].reported
              THEN {[ret |-> p, status |-> ch[p].status,
                     ch |-> [ch EXCEPT ![p].reported = TRUE]]}
              ELSE {}

(* lines 242-248: waitpid returned the child, report_status *)
WaitReport ==
    /\ pc = "waitpid"
    /\ \E r \in waitpid(pid, children) :
         /\ r.ret >= 0
         /\ children' = r.ch
         /\ stdout' = stdout \o report_status(r.status)
         /\ sys' = Append(sys, Sys("waitpid", <<pid, r.status>>, r.ret))
    /\ NextIteration
    /\ UNCHANGED <<xok, max_args, input, line, cap, nread, argv, path, pid, cwd, HOME, sigchld_ign, stderr,
                   exit_status>>

(* a failed waitpid that leaves the loop of main instead of returning to it *)
WaitFail_fatal ==
    /\ pc = "waitpid"
    /\ \E r \in waitpid(pid, children) :
         /\ r.ret < 0
         /\ children' = r.ch
         /\ stderr' = stderr \o perror("waitpid")
    /\ sys' = Append(sys, Sys("waitpid", <<pid, 0>>, -1))
    /\ MainReturn
    /\ UNCHANGED <<xok, max_args, input, cap, nread, argv, path, pid, cwd, HOME, sigchld_ign, stdout>>

(* lines 243-246: waitpid failed *)
WaitFail ==
    /\ pc = "waitpid"
    /\ \E r \in waitpid(pid, children) :
         /\ r.ret < 0
         /\ children' = r.ch
         /\ stderr' = stderr \o perror("waitpid")
    /\ sys' = Append(sys, Sys("waitpid", <<pid, 0>>, -1))
    /\ NextIteration
    /\ UNCHANGED <<xok, max_args, input, line, cap, nread, argv, path, pid, cwd, HOME, sigchld_ign, stdout,
                   exit_status>>

----------------------------------------------------------------------------
Next ==
    \/ PromptOK
    \/ PromptFail
    \/ ReadLineOK
    \/ ReadLineEOF
    \/ ReadLineError
    \/ SkipBlank
    \/ Parse
    \/ BuiltinExit
    \/ BuiltinCd
    \/ ExternalUnknown
    \/ ExternalForkFail
    \/ ExternalFork
    \/ WaitReport
    \/ WaitFail
    \/ \E p \in Pids : ChildExecvOK(p)
    \/ \E p \in Pids : ChildExecvFail(p)
    \/ \E p \in Pids, code \in ExitCodes : ChildExit(p, code)
    \/ \E p \in Pids, sig \in Signals, core \in BOOLEAN : ChildKilled(p, sig, core)
    \/ \E p \in Pids : ChildTraceStop(p)

Spec == Init /\ [][Next]_vars

----------------------------------------------------------------------------
(* The tokenizer alone: parse_line applied to every short line over a small
   alphabet, under every small max_args *)

TokAlphabet == {" ", "\t", "\r", "\n", "a", "b"}

ExampleLine == <<" "," ","l","s"," "," "," ","-","l"," "," ">>

(* a line of n one-letter tokens, a and b in turn, one blank between two *)
LongLine(n) ==
    [k \in 1..(2 * n - 1) |->
        IF k % 2 = 0 THEN " "
        ELSE IF ((k + 1) \div 2) % 2 = 1 THEN "a" ELSE "b"]

(* lines around the capacity of main's argv[MAX_ARGS] *)
LongLines == {LongLine(MAX_ARGS - 1), LongLine(MAX_ARGS), LongLine(MAX_ARGS + 1)}

TokLines ==
    UNION {[1..n -> TokAlphabet] : n \in 0..MaxTokLen}
        \cup {ExampleLine} \cup LongLines

InitTok ==
    /\ pc = "tokenize"
    /\ input \in TokLines
    /\ line = input \o <<NUL>>
    /\ max_args \in (1..MaxArgsTok) \cup {MAX_ARGS}
    /\ cap = INITIAL_BUF
    /\ nread = Len(input)
    /\ argv = <<>>
    /\ xok = {}
    /\ path = <<>>
    /\ pid = 0
    /\ cwd = <<"/">>
    /\ HOME = NullStr
    /\ sigchld_ign = FALSE
    /\ children = <<>>
    /\ stdout = <<>>
    /\ stderr = <<>>
    /\ sys = <<>>
    /\ exit_status = NoExit

TokParse ==
    /\ pc = "tokenize"
    /\ LET r == parse_line(line, max_args)
       IN  /\ line' = r.buf
           /\ argv' = r.argv
    /\ pc' = "tokenized"
    /\ UNCHANGED <<xok, input, max_args, cap, nread, path, pid, cwd, HOME,
                   sigchld_ign, children, stdout, stderr, sys, exit_status>>

NextTok == TokParse

SpecTok == InitTok /\ [][NextTok]_vars

----------------------------------------------------------------------------
(* The resolver alone: find_executable applied to every short command name,
   every value of HOME and every set of executable candidates *)

ResCmds == UNION {[1..n -> {"a", "c", "d"}] : n \in 1..MaxCmdLen}

(* values of HOME for the resolver: unset, empty, absolute, relative *)
ResHomeValues == HomeValues \cup {Str(<<"a">>)}

InitResolve ==
    /\ pc = "resolve"
    /\ input \in ResCmds
    /\ line = input \o <<NUL>>
    /\ argv = <<1, NULL>>
    /\ max_args = MAX_ARGS
    /\ HOME \in ResHomeValues
    /\ xok \in SUBSET Candidates(input)
    /\ cap = INITIAL_BUF
    /\ nread = Len(input)
    /\ path = <<>>
    /\ pid = 0
    /\ cwd = <<"/">>
    /\ sigchld_ign = FALSE
    /\ children = <<>>
    /\ stdout = <<>>
    /\ stderr = <<>>
    /\ sys = <<>>
    /\ exit_status = NoExit

ResolveCmd ==
    /\ pc = "resolve"
    /\ LET r == find_executable(Arg(line, argv, 0), HOME, PATH_BUF, xok)
       IN  /\ path' = r.path
           /\ sys' = Accesses(r.checked)
           /\ pc' = IF r.found THEN "found" ELSE "notfound"
    /\ UNCHANGED <<xok, input, max_args, line, argv, cap, nread, pid, cwd, HOME,
                   sigchld_ign, children, stdout, stderr, exit_status>>

NextResolve == ResolveCmd

SpecResolve == InitResolve /\ [][NextResolve]_vars

----------------------------------------------------------------------------
(* The dispatch alone: lines 298-313 of main applied to a line read_line has
   just returned, whose first word is a built-in's name or close to one.
   Which files are executable is open, as in the whole shell: the external
   actions pick the set that access accepts. *)

DispatchWords ==
    {kw_cd, kw_exit,
     <<"c">>, <<"c","d","x">>, <<"C","D">>, <<"c","D">>,
     <<"e","x","i">>, <<"e","x","i","t","s">>, <<"E","x","i","t">>, <<"E","X","I","T">>}

DispatchLines ==
    {w \o rest \o <<"\n">> : w \in DispatchWords, rest \in {<<>>, <<" ", "a">>}}

InitDispatch ==
    /\ pc = "parse"
    /\ input \in DispatchLines
    /\ line = input \o <<NUL>>
    /\ cap = INITIAL_BUF
    /\ nread = Len(input)
    /\ argv = <<>>
    /\ max_args = MAX_ARGS
    /\ xok = {}
    /\ path = <<>>
    /\ pid = 0
    /\ cwd = <<"/">>
    /\ HOME \in HomeValues
    /\ sigchld_ign \in BOOLEAN
    /\ children = <<>>
    /\ stdout = SubSeq(PROMPT, 1, PROMPT_LEN)
    /\ stderr = <<>>
    /\ sys = <<Sys("read", <<"line">>, 1)>>
    /\ exit_status = NoExit

NextDispatch ==
    \/ Parse
    \/ BuiltinExit
    \/ BuiltinCd
    \/ ExternalUnknown
    \/ ExternalForkFail
    \/ ExternalFork

SpecDispatch == InitDispatch /\ [][NextDispatch]_vars

----------------------------------------------------------------------------
(* Vocabulary of the properties *)

LiveChildren == {p \in DOMAIN children : Live(children[p])}

(* the positions of the code a forked child may be at: its execv, the
   program it became, and its end *)
ChildPositions == {"execv", "image", "stopped", "zombie"}

Did(call) == \E i \in 1..Len(sys) : sys[i].call = call

Calls(call) == SelectSeq(sys, LAMBDA e : e.call = call)

ShownPrompt == <<"m","i","n","i","-","b","a","s","h"," ","$">>

(* the separators of the tokenizer, as the specification lists them *)
Separators == {" ", "\t", "\r", "\n"}

AllSeparators(s) == \A i \in 1..Len(s) : s[i] \in Separators

(* the places of s where a maximal separator-free substring starts *)
TokenStarts(s) ==
    {i \in 1..Len(s) : s[i] \notin Separators /\ (i = 1 \/ s[i - 1] \in Separators)}

(* where the maximal separator-free substring starting at i ends *)
TokenEnd(s, i) ==
    CHOOSE j \in i..Len(s) :
        /\ \A k \in i..j : s[k] \notin Separators
        /\ j = Len(s) \/ s[j + 1] \in Separators

(* the maximal separator-free substrings of s, in order *)
Tokens(s) ==
    LET st == TokenStarts(s)
        nth(k) == CHOOSE i \in st : Cardinality({j \in st : j < i}) = k - 1
    IN  [k \in 1..Cardinality(st) |-> SubSeq(s, nth(k), TokenEnd(s, nth(k)))]

(* a step in which the shell process does nothing: only its children move *)
ShellIdle ==
    UNCHANGED <<pc, input, line, cap, nread, argv, path, pid, cwd, HOME,
                stdout, sys, exit_status>>

(* decimal notation of a natural number, most significant digit first *)
RECURSIVE Decimal(_)
Decimal(n) ==
    IF n < 10 THEN <<Digit(n)>> ELSE Decimal(n \div 10) \o <<Digit(n % 10)>>

----------------------------------------------------------------------------
(* C1: at most one child of the shell is alive at any time, and the shell
   has not printed the next prompt, nor read or tokenized the next line,
   while the child launched for the current line is alive. *)
C1_OneChildAndBlocking ==
    /\ Cardinality(LiveChildren) <= 1
    /\ pc \in {"read_line", "parse", "dispatch"} => LiveChildren = {}

(* C2: a forked child whose execv failed has ended with exit status 1, and
   no child is ever at a position of the parent's path (waitpid,
   report_status, the prompt, read_line, the dispatch). *)
C2_FailedExecChildExits ==
    \A p \in DOMAIN children :
        /\ children[p].pc \in ChildPositions
        /\ children[p].failed =>
              /\ children[p].pc = "zombie"
              /\ WIFEXITED(children[p].status)
              /\ WEXITSTATUS(children[p].status) = 1

C2_Witness ==
    \E p \in DOMAIN children :
        /\ children[p].failed
        /\ children[p].pc = "zombie"
        /\ pc = "waitpid" /\ pid = p
        /\ stderr = perror("execv")


----------------------------------------------------------------------------
(* C3: resolve returns $HOME/<cmd> if HOME is set, non-empty and that path
   is executable, else /bin/<cmd> if that path is executable, else
   NotFound; with HOME unset or empty the only path checked is /bin/<cmd>. *)
HomeUsable == ~HOME.isNull /\ HOME.str # <<>>
HomeCandidate == HOME.str \o <<"/">> \o input
BinCandidate == <<"/","b","i","n","/">> \o input

C3_ResolutionOrder ==
    pc \in {"found", "notfound"} =>
        /\ IF HomeUsable /\ HomeCandidate \in xok
           THEN pc = "found" /\ path = HomeCandidate
           ELSE IF BinCandidate \in xok
                THEN pc = "found" /\ path = BinCandidate
                ELSE pc = "notfound"
        /\ ~HomeUsable => [k \in 1..Len(sys) |-> sys[k].arg] = <<BinCandidate>>

C3_Witness ==
    /\ pc = "found"
    /\ HomeUsable
    /\ HomeCandidate \in xok
    /\ BinCandidate \in xok
    /\ path = HomeCandidate

(* C4: when the command is external and resolution finds nothing, the shell
   writes exactly "[<commandName>]: Unknown Command" and a newline to
   standard error, calls neither fork nor waitpid, prints no status message
   and is back at the top of its loop. *)
NotFoundNow ==
    /\ Calls("access") # <<>>
    /\ \A i \in 1..Len(sys) : sys[i].call = "access" => sys[i].ret # 0

C4_UnknownCommand ==
    NotFoundNow /\ Tokens(input)[1] \notin {kw_exit, kw_cd} =>
        /\ stderr = <<"[">> \o Tokens(input)[1] \o <<"]: Unknown Command\n">>
        /\ ~Did("fork") /\ ~Did("waitpid")
        /\ pid = 0
        /\ \A p \in DOMAIN children : children[p].pc \notin {"execv", "image"}
        /\ stdout = ShownPrompt
        /\ pc = "prompt"
        /\ exit_status = NoExit

C4_Witness ==
    /\ NotFoundNow
    /\ input = <<"a", " ", "a", "\n">>
    /\ stderr = <<"[", "a", "]: Unknown Command\n">>
    /\ pc = "prompt"

(* C5: a child that was waited for successfully gets exactly one status
   message on standard output, chosen by how it ended: exit code c gives
   "Command executed successfully. Return code: c", signal n gives
   "Command terminated by signal: n", anything else "Command finished.
   (unknown status)"; nothing else prints a status message. *)
StatusMessage(st) ==
    IF \E c \in 0..255 : st = StatusExited(c)
    THEN <<"Command executed successfully. Return code: ">>
         \o Decimal(CHOOSE c \in 0..255 : st = StatusExited(c)) \o <<"\n">>
    ELSE IF \E n \in 1..64, core \in BOOLEAN : st = StatusSignaled(n, core)
         THEN <<"Command terminated by signal: ">>
              \o Decimal(CHOOSE n \in 1..64 :
                           \E core \in BOOLEAN : st = StatusSignaled(n, core))
              \o <<"\n">>
         ELSE <<"Command finished. (unknown status)\n">>

StatusHeads ==
    {"Command executed successfully. Return code: ",
     "Command terminated by signal: ",
     "Command finished. (unknown status)\n"}

WaitedFor == {i \in 1..Len(sys) : sys[i].call = "waitpid" /\ sys[i].ret >= 0}

C5_OneStatusMessage ==
    IF WaitedFor # {}
    THEN /\ Cardinality(WaitedFor) = 1
         /\ \A i \in WaitedFor :
              stdout = ShownPrompt \o StatusMessage(sys[i].arg[2])
    ELSE \A k \in 1..Len(stdout) : stdout[k] \notin StatusHeads

C5_Witness ==
    /\ WaitedFor # {}
    /\ stdout = ShownPrompt
                \o <<"Command executed successfully. Return code: ",
                     "2", "5", "5", "\n">>


(* C6: when the first token of a line is exit, whatever follows it, the
   only step of the shell is to leave the loop with exit status 0: no
   resolution, fork or chdir, no output; and once the shell has returned it
   does nothing any more (no prompt, no read). *)
ExitLine == Tokens(input) # <<>> /\ Tokens(input)[1] = kw_exit

C6_ExitTerminates ==
    [][ /\ (pc = "dispatch" /\ pc' # pc /\ ExitLine) =>
              /\ pc' = "done"
              /\ exit_status' = <<0>>
              /\ sys' = sys /\ stdout' = stdout /\ stderr' = stderr
              /\ cwd' = cwd /\ children' = children
        /\ (pc = "parse" /\ pc' # pc /\ ExitLine) => pc' = "dispatch" /\ sys' = sys
        /\ pc = "done" => ShellIdle ]_vars

C6_Witness ==
    /\ pc = "done"
    /\ input = <<"e","x","i","t"," ","a","\n">>
    /\ exit_status = <<0>>
    /\ sys = <<Sys("read", <<"line">>, 1)>>
    /\ stdout = ShownPrompt

(* C7: when cd's chdir fails, the working directory is what it was, the
   chdir diagnostic is on standard error, and the shell is back at the top
   of its loop, still running. *)
CdLine == Tokens(input) # <<>> /\ Tokens(input)[1] = kw_cd

ChdirFailed(log) ==
    /\ log # <<>>
    /\ log[Len(log)].call = "chdir"
    /\ log[Len(log)].ret # 0

C7_FailedCdKeepsDirectory ==
    [][ (pc = "dispatch" /\ CdLine /\ pc' # pc /\ ChdirFailed(sys')) =>
            /\ cwd' = cwd
            /\ stderr' = stderr \o <<"chdir", ": ", "strerror(errno)", "\n">>
            /\ pc' = "prompt"
            /\ exit_status' = NoExit ]_vars

C7_Witness ==
    /\ pc = "prompt"
    /\ input = <<"c","d"," ","a","\n">>
    /\ ChdirFailed(sys)
    /\ cwd = <<"/","a">>
    /\ stderr = <<"chdir", ": ", "strerror(errno)", "\n">>

(* C8: cd's target is the second token when there is one, else the value of
   HOME; with no second token and HOME unset the shell writes "cd: HOME not
   set", calls no chdir and goes on; when the target names a directory the
   working directory becomes it, and only a cd changes the working
   directory. *)
CdTarget ==
    IF Len(Tokens(input)) >= 2
    THEN [isNull |-> FALSE, str |-> Tokens(input)[2]]
    ELSE HOME

C8_CdTarget ==
    [][ /\ (pc = "dispatch" /\ CdLine /\ pc' # pc) =>
              /\ pc' = "prompt"
              /\ IF CdTarget.isNull
                 THEN /\ stderr' = stderr \o <<"cd: HOME not set\n">>
                      /\ sys' = sys
                      /\ cwd' = cwd
                 ELSE \E ret \in {0, -1} :
                        /\ sys' = Append(sys, [call |-> "chdir",
                                               arg |-> CdTarget.str, ret |-> ret])
                        /\ ret = 0 <=> Resolve(cwd, CdTarget.str) \in Dirs
                        /\ ret = 0 => /\ cwd' = Resolve(cwd, CdTarget.str)
                                      /\ stderr' = stderr
        /\ cwd' # cwd => pc = "dispatch" /\ CdLine ]_vars

C8_Witness ==
    /\ pc = "prompt"
    /\ input = <<"c","d","\n">>
    /\ HOME = [isNull |-> FALSE, str |-> <<"/","a">>]
    /\ sys = <<Sys("read", <<"line">>, 1), Sys("chdir", <<"/","a">>, 0)>>
    /\ cwd = <<"/","a">>

(* C9: a line that is empty or made of separators only yields no token and
   is not dispatched: no built-in, no resolution, no fork, no output but
   the prompt; and whenever a line is dispatched its argument vector holds
   at least one token and no empty token. *)
C9_BlankLinesSkipped ==
    /\ (input # <<>> /\ AllSeparators(input)) =>
          /\ pc \in {"parse", "prompt"}
          /\ argv = <<>>
          /\ parse_line(input \o <<NUL>>, MAX_ARGS).argc = 0
          /\ sys = <<Sys("read", <<"line">>, 1)>>
          /\ stdout = ShownPrompt
          /\ stderr = <<>>
    /\ pc \in {"dispatch", "waitpid"} =>
          /\ ~AllSeparators(input)
          /\ argc >= 1
          /\ \A k \in 0..(argc - 1) : Arg(line, argv, k) # <<>>

C9_Witness ==
    /\ pc = "prompt"
    /\ input = <<" ", "\t", "\n">>
    /\ nread = 3
    /\ argv = <<>>
    /\ sys = <<Sys("read", <<"line">>, 1)>>

(* C10: for a line with fewer tokens than the maximum token count,
   parse_line returns, in order, exactly the maximal substrings of the line
   free of space, tab, carriage return and newline: no empty token, no
   separator inside a token. *)
C10_TokensAreMaximalSubstrings ==
    (pc = "tokenized" /\ Len(Tokens(input)) < max_args) =>
        /\ Args(line, argv) = Tokens(input)
        /\ argv[Len(argv)] = NULL
        /\ \A k \in 1..(Len(argv) - 1) :
              /\ CStr(line, argv[k]) # <<>>
              /\ \A i \in 1..Len(CStr(line, argv[k])) :
                    CStr(line, argv[k])[i] \notin Separators

C10_Witness ==
    /\ pc = "tokenized"
    /\ input = ExampleLine
    /\ Len(Tokens(input)) < max_args
    /\ Args(line, argv) = << <<"l","s">>, <<"-","l">> >>

----------------------------------------------------------------------------
(* C11 as stated: the shell leaves its loop only when the write of the
   prompt failed, at end of input, or on exit; no other failure (of the
   read of the input among them) ends the loop. *)
LastOf(log) == log[Len(log)]

EndOfInput(log) ==
    log # <<>> /\ LastOf(log).call = "read" /\ LastOf(log).ret = 0

C11_OnlyPromptFailureIsFatal ==
    [][ (pc # "done" /\ pc' = "done") =>
            \/ pc = "prompt" /\ stderr' = <<"write", ": ", "strerror(errno)", "\n">>
            \/ pc = "read_line" /\ EndOfInput(sys')
            \/ pc = "dispatch" /\ ExitLine ]_vars

(* C11, amended: the shell leaves its loop only when the write of the prompt
   failed, when read_line failed (malloc, read or realloc), at end of input,
   or on exit; a failed resolution, fork, execv, waitpid or chdir never ends
   the loop. *)
ReadLineFailed(log) ==
    /\ log # <<>>
    /\ LastOf(log).call \in {"malloc", "read", "realloc"}
    /\ LastOf(log).ret < 0

C11_FatalConditions ==
    [][ (pc # "done" /\ pc' = "done") =>
            \/ pc = "prompt" /\ stderr' = <<"write", ": ", "strerror(errno)", "\n">>
            \/ pc = "read_line" /\ (EndOfInput(sys') \/ ReadLineFailed(sys'))
            \/ pc = "dispatch" /\ ExitLine ]_vars

C11_Witness ==
    /\ pc = "done"
    /\ sys = <<Sys("read", <<"error">>, -1)>>
    /\ stdout = ShownPrompt \o <<"\n">>
    /\ exit_status = <<0>>

----------------------------------------------------------------------------
(* C12 as stated: whenever execv failed in the child of the current
   command, the parent prints "Command executed successfully. Return code:
   1" and nothing else of its own (standard error holds the child's execv
   diagnostic only), and is back at the top of its loop. *)
ExecFailedNow == \E k \in 1..Len(stderr) : stderr[k] = "execv"

ExecvDiagnostic == <<"execv", ": ", "strerror(errno)", "\n">>

ReturnCode1 ==
    ShownPrompt \o <<"Command executed successfully. Return code: ", "1", "\n">>

C12_ExecFailureShownAsCode1 ==
    /\ (pc = "waitpid" /\ ExecFailedNow) =>
          stdout = ShownPrompt /\ stderr = ExecvDiagnostic
    /\ (pc # "waitpid" /\ ExecFailedNow) =>
          /\ pc = "prompt"
          /\ stdout = ReturnCode1
          /\ stderr = ExecvDiagnostic
          /\ exit_status = NoExit

(* C12, amended: whenever execv failed in the child of the current command
   and the parent's waitpid for that child succeeded, the parent prints
   "Command executed successfully. Return code: 1" and nothing else of its
   own, and is back at the top of its loop. *)
C12_ExecFailureReportedWhenWaited ==
    /\ (pc = "waitpid" /\ ExecFailedNow) =>
          stdout = ShownPrompt /\ stderr = ExecvDiagnostic
    /\ (pc # "waitpid" /\ ExecFailedNow /\ WaitedFor # {}) =>
          /\ pc = "prompt"
          /\ stdout = ReturnCode1
          /\ stderr = ExecvDiagnostic
          /\ exit_status = NoExit

C12_Witness ==
    /\ pc = "prompt"
    /\ ExecFailedNow
    /\ WaitedFor # {}
    /\ stdout = ReturnCode1
    /\ children = <<>>

----------------------------------------------------------------------------
(* C13: when read_line meets the end of input before any byte of the line,
   the shell writes one newline to standard output and returns from main
   with status 0, having read no line and dispatched nothing in this
   iteration (no token, no system call but the read, no child created, no
   change of directory, nothing on standard error); once it returned it
   does nothing any more.  The state it does so from is any the loop can
   be in, the first iteration or a later one. *)
C13_EndOfInputShutdown ==
    [][ /\ (pc = "read_line" /\ EndOfInput(sys')) =>
              /\ pc' = "done"
              /\ exit_status' = <<0>>
              /\ stdout = ShownPrompt
              /\ stdout' = ShownPrompt \o <<"\n">>
              /\ stderr' = <<>>
              /\ sys' = <<[call |-> "read", arg |-> <<"eof">>, ret |-> 0]>>
              /\ input' = <<>> /\ argv' = <<>>
              /\ children' = children
              /\ cwd' = cwd
        /\ (pc = "done" /\ EndOfInput(sys)) => ShellIdle /\ stderr' = stderr ]_vars

C13_Witness ==
    /\ pc = "done"
    /\ EndOfInput(sys)
    /\ stdout = ShownPrompt \o <<"\n">>
    /\ exit_status = <<0>>
    /\ cwd = <<"/", "a">>

----------------------------------------------------------------------------
(* C14 as stated: with max_args = MAX_ARGS the tokenizer keeps at most 128
   tokens: of a line with 128 tokens or more, exactly the first 128; of a
   line with fewer, all; and it reports nothing. *)
C14_MaxTokenCount128 ==
    (pc = "tokenized" /\ max_args = MAX_ARGS) =>
        LET t == Tokens(input)
        IN  /\ Len(t) >= MAX_ARGS => Args(line, argv) = SubSeq(t, 1, MAX_ARGS)
            /\ Len(t) < MAX_ARGS => Args(line, argv) = t
            /\ stdout = <<>> /\ stderr = <<>>

(* C14, amended: the tokenizer keeps at most max_args - 1 tokens, 127 for
   the MAX_ARGS of main: of a line with that many tokens or more, exactly
   the first max_args - 1; of a line with fewer, all; it reports nothing,
   and a truncated vector is as fit for dispatch as any (not empty when the
   line has a token and max_args - 1 >= 1). *)
C14_MaxTokenCountIsMaxArgsLessOne ==
    pc = "tokenized" =>
        LET t == Tokens(input)
            m == max_args - 1
        IN  /\ Len(t) >= m => Args(line, argv) = SubSeq(t, 1, m)
            /\ Len(t) < m => Args(line, argv) = t
            /\ (t # <<>> /\ m >= 1) => Len(argv) - 1 >= 1
            /\ stdout = <<>> /\ stderr = <<>>

C14_Witness ==
    /\ pc = "tokenized"
    /\ max_args = MAX_ARGS
    /\ input = LongLine(MAX_ARGS)
    /\ Len(argv) - 1 = MAX_ARGS - 1
    /\ Arg(line, argv, MAX_ARGS - 2) = <<"a">>

----------------------------------------------------------------------------
(* C15: when fork fails the shell writes the fork diagnostic to standard
   error, has created no child (so nothing calls execv), calls no waitpid,
   prints no status message, and is back at the top of its loop, still
   running. *)
ForkFailed(log) ==
    log # <<>> /\ LastOf(log).call = "fork" /\ LastOf(log).ret < 0

C15_ForkFailureAbandonsCommand ==
    [][ (pc = "dispatch" /\ ForkFailed(sys')) =>
            /\ stderr' = stderr \o <<"fork", ": ", "strerror(errno)", "\n">>
            /\ children' = children
            /\ \A p \in DOMAIN children' : children'[p].pc # "execv"
            /\ pid' <= 0
            /\ \A i \in 1..Len(sys') : sys'[i].call # "waitpid"
            /\ stdout' = stdout
            /\ stdout' = ShownPrompt
            /\ pc' = "prompt"
            /\ exit_status' = NoExit ]_vars

C15_Witness ==
    /\ pc = "prompt"
    /\ ForkFailed(sys)
    /\ stderr = <<"fork", ": ", "strerror(errno)", "\n">>
    /\ stdout = ShownPrompt
    /\ children = <<>>

----------------------------------------------------------------------------
(* C16: the shell's waitpid is for the process id its fork returned for the
   current command: it returns only on account of that child (which ended,
   stopped, or is no child any more) and reaps no other child; when it
   fails the shell writes the waitpid diagnostic to standard error, prints
   no status message and is back at the top of its loop, still running. *)
C16_WaitsForItsOwnChild ==
    [][ (pc = "waitpid" /\ pc' # "waitpid") =>
            /\ pid > 0
            /\ LastOf(sys).call = "fork" /\ LastOf(sys).ret = pid
            /\ LastOf(sys').call = "waitpid" /\ LastOf(sys').arg[1] = pid
            /\ Len(sys') = Len(sys) + 1
            /\ pid \in DOMAIN children => children[pid].pc \in {"zombie", "stopped"}
            /\ \A q \in DOMAIN children \ {pid} :
                  q \in DOMAIN children' /\ children'[q] = children[q]
            /\ IF LastOf(sys').ret < 0
               THEN /\ stderr' = stderr \o <<"waitpid", ": ", "strerror(errno)", "\n">>
                    /\ stdout' = stdout
                    /\ stdout' = ShownPrompt
                    /\ pc' = "prompt"
                    /\ exit_status' = NoExit
               ELSE LastOf(sys').ret = pid ]_vars

C16_Witness ==
    /\ pc = "prompt"
    /\ pid = 2
    /\ sys # <<>>
    /\ LastOf(sys).call = "waitpid" /\ LastOf(sys).ret < 0
    /\ 1 \in DOMAIN children
    /\ stderr = <<"waitpid", ": ", "strerror(errno)", "\n">>
    /\ stdout = ShownPrompt

----------------------------------------------------------------------------
(* C17: once fork succeeded the shell is back at the top of its loop only
   when the child of the command has ended (it exited or a signal killed
   it: it is a zombie or gone from the process table), and a shell waiting
   for a child that has ended is able to go on. *)
ChildOfCommandEnded ==
    pid \notin DOMAIN children \/ children[pid].pc = "zombie"

C17_ChildEndsBeforeNextPrompt ==
    /\ (pc = "prompt" /\ pid > 0) => ChildOfCommandEnded
    /\ (pc = "waitpid" /\ ChildOfCommandEnded) => ENABLED (WaitReport \/ WaitFail)

----------------------------------------------------------------------------
(* C18 as stated: a path the resolver returns as found begins with "/" and
   is one for which access(path, X_OK) returned 0 in this resolution. *)
C18_FoundPathAbsoluteAndExecutable ==
    pc = "found" =>
        /\ path # <<>> /\ path[1] = "/"
        /\ path \in xok
        /\ LastOf(sys) = [call |-> "access", arg |-> path, ret |-> 0]

(* C18, amended: a path the resolver returns as found is $HOME/<cmd> (HOME
   set and not empty) or /bin/<cmd> and is one for which access(path, X_OK)
   returned 0 in this resolution; it begins with "/" exactly when it is
   /bin/<cmd> or HOME begins with "/". *)
C18_FoundPathIsCheckedCandidate ==
    pc = "found" =>
        /\ \/ HomeUsable /\ path = HomeCandidate
           \/ path = BinCandidate
        /\ path \in xok
        /\ LastOf(sys) = [call |-> "access", arg |-> path, ret |-> 0]
        /\ path[1] = "/" <=> (path = BinCandidate \/ HOME.str[1] = "/")

C18_Witness ==
    /\ pc = "found"
    /\ HOME = [isNull |-> FALSE, str |-> <<"a">>]
    /\ input = <<"c", "d">>
    /\ path = <<"a", "/", "c", "d">>
    /\ path \in xok

----------------------------------------------------------------------------
(* C19: a line whose first token is exactly cd or exit is handled by the
   built-in: no access (no resolution) and no fork, whatever files are
   executable; exit leaves the loop and cd goes back to its top.  A line
   with any other first token, one that starts like cd or exit or differs
   from them in case among them, goes to the resolver: the next system
   call is the access of a candidate of that very token, and the working
   directory is left alone. *)
FirstToken == Tokens(input)[1]

C19_BuiltinsTakePrecedence ==
    [][ pc = "dispatch" =>
          IF FirstToken \in {<<"c","d">>, <<"e","x","i","t">>}
          THEN /\ \A i \in 1..Len(sys') : sys'[i].call \notin {"access", "fork"}
               /\ children' = children
               /\ pid' = 0
               /\ IF FirstToken = <<"e","x","i","t">>
                  THEN pc' = "done" ELSE pc' = "prompt"
          ELSE /\ Len(sys') > Len(sys)
               /\ sys'[Len(sys) + 1].call = "access"
               /\ sys'[Len(sys) + 1].arg \in
                     {HOME.str \o <<"/">> \o FirstToken,
                      <<"/","b","i","n","/">> \o FirstToken}
               /\ cwd' = cwd
               /\ pc' \in {"prompt", "waitpid"} ]_vars

C19_Witness ==
    /\ pc = "waitpid"
    /\ input = <<"c","d","x"," ","a","\n">>
    /\ path = <<"/","b","i","n","/","c","d","x">>
    /\ pid \in DOMAIN children
    /\ cwd = <<"/">>

----------------------------------------------------------------------------
(* C20: for every line and every max_args >= 1, parse_line returns argc
   with 0 <= argc <= max_args - 1; the cells of argv it wrote are
   argv[0..argc], all inside an array of max_args elements; argv[argc] is
   NULL and no cell before it is: each points to a character of the line. *)
C20_ArgvBoundedAndNullTerminated ==
    (pc = "tokenized" /\ max_args >= 1) =>
        /\ Len(argv) - 1 >= 0
        /\ Len(argv) - 1 <= max_args - 1
        /\ Len(argv) <= max_args
        /\ argv[Len(argv)] = NULL
        /\ \A k \in 1..(Len(argv) - 1) :
              argv[k] # NULL /\ argv[k] \in 1..Len(input)

C20_Witness ==
    /\ pc = "tokenized"
    /\ max_args = MAX_ARGS
    /\ input = LongLine(MAX_ARGS + 1)
    /\ Len(argv) = MAX_ARGS
    /\ argv[MAX_ARGS] = NULL
    /\ argv[MAX_ARGS - 1] # NULL

====
